---- MODULE Spec2Model ----
(***************************************************************************)
(* Guardrail-gated RAG chat pipeline (edge function chat-with-guardrails)  *)
(* with the tables it reads and writes: Spec.  The document library is     *)
(* followed in specifications of its own: SpecSearch (search RPC and soft  *)
(* delete), SpecUpload (two upload sessions) and SpecIngest (one upload    *)
(* and repeated invocations of the edge function process-document).        *)
(* SpecSettings runs the chat handler next to the admin settings page,     *)
(* SpecRules runs it over rule rows edited in the database.  SpecChunk     *)
(* applies chunkText to short texts.                                       *)
(*                                                                         *)
(* Numbers.  Similarities and thresholds are kept in hundredths (0.85 is   *)
(* 85).  A confidence score is kept as the exact fraction num/den with     *)
(* den = 1000 * (number of retrieved chunks); comparisons cross-multiply.  *)
(* For the similarity and threshold values enumerated below the exact      *)
(* comparison agrees with the IEEE double comparison the function makes.   *)
(***************************************************************************)
EXTENDS Integers, Sequences, FiniteSets, TLC

\* ------------------------------------------------------------------ bounds
MaxChunks == 3      \* rows of document_chunks in the store
MaxMarkers == 3     \* bracketed source markers in one model response
MaxStoredChunks == 6  \* chunk rows in the library the search RPC is run on
MaxRuns == 2        \* invocations of process-document
MaxFileChunks == 2  \* chunks the text of an uploaded file is cut into
MaxTextLen == 7     \* characters of a text given to chunkText on its own
MaxChunkChars == 2  \* largest maxChars given to chunkText on its own
MaxOverlap == 4     \* largest overlap given to chunkText on its own
SettingsChunks == 1 \* chunk rows in the store while the settings are edited

\* --------------------------------------------------------- program constants
MatchThreshold == 60          \* match_threshold: 0.6
MatchCount == 5               \* match_count: 5
DefaultThreshold == 70        \* || 0.7
DefaultMinSources == 1        \* || 1
DefaultMaxTokens == 1000      \* || 1000
QualityMinLen == 50           \* aiResponse.length > 50
QualityMaxLen == 3000         \* aiResponse.length < 3000
ExtractMinLen == 10           \* extractedText.length < 10
ChunkMaxChars == 2000         \* maxChars: 2000
ChunkOverlap == 200           \* overlap: 200
SectionMaxLen == 100          \* paragraph.length < 100
PageChars == 3000             \* Math.ceil(charPosition / 3000)
MarkerLen == 10               \* length of "[Source N]" with a one-digit N

\* ------------------------------------------------------------ input domains
None == <<>>
Some(v) == <<v>>

Sims == {60, 85, 90}                    \* similarity of a chunk to the query
StoredThresholds == {70, 95}            \* slider 0..100, stored as n/100
StoredMinSources == {1, 2}              \* number input, min 0
BodyLens == {40, 2990}                  \* characters of the response besides markers
CiteNums == {1, 2, 3}                   \* N of a "[Source N]" marker

RuleNames == {"min_confidence", "require_sources", "max_response_length",
              "block_unsupported", "citation_required"}

DocIds == {1, 2}
ChunkIds == 1..(MaxChunks + 1)          \* the last one belongs to document 2

Min(a, b) == IF a < b THEN a ELSE b

VARIABLES
    ai_guardrails_config,   \* table: rule_name -> [is_enabled, rule_value]
    documents,              \* table: id -> [is_active, processing_status]
    document_chunks,        \* table: set of [id, document_id]
    ai_guardrails_logs,     \* table: sequence of inserted log rows
    document_access_logs,   \* table: number of ai_reference rows
    pc,                     \* position of the request handler
    req,                    \* parsed request body
    config,                 \* GuardrailConfig resolved in STEP 1
    relevantChunks,         \* None (null) or Some(sequence of rows)
    aiResponse,             \* None or Some(response)
    citations,              \* matches of the citation pattern, in order
    citedSourceIndices,     \* distinct zero-based in-range indices
    confidenceScore,        \* [num, den]
    logData,                \* None or Some(LogData) passed to logInteraction
    pending,                \* None or Some(payload) about to be returned
    result,                 \* None or Some(payload) returned to the caller
    stages,                 \* outcome states the query went through
    completionCalls,        \* requests sent to the completion service
    logCalls,               \* calls of logInteraction
    logInsertFailed,        \* the insert inside logInteraction failed
    searched,               \* None or Some(answer of the search RPC followed)
    storage,                \* bucket 'documents': set of stored file paths
    uploads,                \* uploader -> state of its uploadFiles() run
    runs,                   \* sequence of process-document invocations
    saving,                 \* None or Some(run of saveSettings() in flight)
    chunker                 \* None or one call of chunkText: text, options, chunks

vars == <<ai_guardrails_config, documents, document_chunks, ai_guardrails_logs,
          document_access_logs, pc, req, config, relevantChunks, aiResponse,
          citations, citedSourceIndices, confidenceScore, logData, pending,
          result, stages, completionCalls, logCalls, logInsertFailed,
          searched, storage, uploads, runs, saving, chunker>>

\* state of the document library (search RPC, upload page, ingestion function)
libVars == <<searched, storage, uploads, runs>>

\* what the library's steps leave alone: the chat handler, the tables only it
\* uses, the settings page and the call of chunkText followed on its own
chatVars == <<saving, chunker, ai_guardrails_config, ai_guardrails_logs, document_access_logs,
              pc, req, config, relevantChunks, aiResponse, citations,
              citedSourceIndices, confidenceScore, logData, pending, result,
              stages, completionCalls, logCalls, logInsertFailed>>

tables == <<ai_guardrails_config, documents, document_chunks>>

\* ------------------------------------------------------------ STEP 1: config
\* faulty variant: the select without .eq('is_enabled', true)
SelectEnabled_all(table) == [n \in DOMAIN table |-> table[n].rule_value]

\* .from('ai_guardrails_config').select('*').eq('is_enabled', true)
SelectEnabled(table) ==
    [n \in {r \in DOMAIN table : table[r].is_enabled} |-> table[n].rule_value]

\* faulty variant: ?? in place of ||, a stored 0 is kept
NumberOr_nullish(data, name, d) ==
    IF name \in DOMAIN data THEN data[name] ELSE d

\* guardrailsData?.find(...)?.rule_value?.x || d   (0 and a missing row give d)
NumberOr(data, name, d) ==
    IF name \in DOMAIN data /\ data[name] # 0 THEN data[name] ELSE d

\* guardrailsData?.find(...)?.rule_value?.x ?? d   (only a missing row gives d)
BoolOr(data, name, d) ==
    IF name \in DOMAIN data THEN data[name] ELSE d

ResolveConfig(data) ==
    [confidenceThreshold |-> NumberOr(data, "min_confidence", DefaultThreshold),
     minSources          |-> NumberOr(data, "require_sources", DefaultMinSources),
     maxTokens           |-> NumberOr(data, "max_response_length", DefaultMaxTokens),
     blockUnsupported    |-> BoolOr(data, "block_unsupported", TRUE),
     citationRequired    |-> BoolOr(data, "citation_required", TRUE)]

\* ------------------------------------------------------------ STEP 3: search
\* faulty variant: the WHERE clause without d.is_active = true
MatchingRows_anyactive(docs, chunks, sim, match_threshold) ==
    {[id |-> c.id, document_id |-> c.document_id, similarity |-> sim[c.id]] :
        c \in {x \in chunks :
                 /\ docs[x.document_id].processing_status = "completed"
                 /\ sim[x.id] > match_threshold}}

\* Rows of the join that pass the WHERE clause, for the similarities sim.
MatchingRows(docs, chunks, sim, match_threshold) ==
    {[id |-> c.id, document_id |-> c.document_id, similarity |-> sim[c.id]] :
        c \in {x \in chunks :
                 /\ docs[x.document_id].is_active
                 /\ docs[x.document_id].processing_status = "completed"
                 /\ sim[x.id] > match_threshold}}

\* ORDER BY similarity DESC LIMIT match_count: every result the database may
\* give (rows of equal similarity come in any order).
search_document_chunks(docs, chunks, sim, match_threshold, match_count) ==
    LET rows == MatchingRows(docs, chunks, sim, match_threshold)
        k == Min(match_count, Cardinality(rows))
    IN  {s \in [1..k -> rows] :
           /\ \A i, j \in 1..k : i < j =>
                 /\ s[i] # s[j]
                 /\ s[i].similarity >= s[j].similarity
           /\ \A r \in rows : (\A i \in 1..k : s[i] # r) =>
                 \A i \in 1..k : s[i].similarity >= r.similarity}

\* --------------------------------------------------- STEP 7: citation scan
\* A response is a body of plain text plus bracketed tokens "[<tag> <num>]".
ResponseLength(r) == r.body + MarkerLen * Len(r.markers)

\* faulty variant: the pattern with the ignore-case flag
MatchesCitationPattern_anycase(tok) == tok.tag \in {"Source", "source"}

\* /\[Source (\d+)\]/g : the tag is matched case-sensitively
MatchesCitationPattern(tok) == tok.tag = "Source"

RECURSIVE MatchAll(_)
MatchAll(toks) ==
    IF toks = <<>> THEN <<>>
    ELSE IF MatchesCitationPattern(Head(toks))
         THEN <<Head(toks).num>> \o MatchAll(Tail(toks))
         ELSE MatchAll(Tail(toks))

\* faulty variant: the indices are not filtered by the number of sources
CitedSourceIndices_unfiltered(cits, n) ==
    {cits[j] - 1 : j \in 1..Len(cits)}

\* faulty variant: the one-based marker number used as the zero-based index
CitedSourceIndices_onebased(cits, n) ==
    {i \in {cits[j] : j \in 1..Len(cits)} : i >= 0 /\ i < n}

\* [...new Set(citations.map(m => parseInt(m[1]) - 1))]
\*     .filter(i => i >= 0 && i < relevantChunks.length)
CitedSourceIndices(cits, n) ==
    {i \in {cits[j] - 1 : j \in 1..Len(cits)} : i >= 0 /\ i < n}

\* ----------------------------------------------------- STEP 8: confidence
RECURSIVE SumSimilarity(_)
SumSimilarity(rows) ==
    IF rows = <<>> THEN 0 ELSE Head(rows).similarity + SumSimilarity(Tail(rows))

\* faulty variant: the lower length bound taken inclusively
ResponseQuality_inclusive(r) ==
    IF ResponseLength(r) >= QualityMinLen /\ ResponseLength(r) < QualityMaxLen
    THEN 10 ELSE 7

\* aiResponse.length > 50 && aiResponse.length < 3000 ? 1 : 0.7   (in tenths)
ResponseQuality(r) ==
    IF ResponseLength(r) > QualityMinLen /\ ResponseLength(r) < QualityMaxLen
    THEN 10 ELSE 7

\* faulty variant: the weights of similarity and citation coverage exchanged
ConfidenceScore_swapped(rows, cited, r) ==
    LET n == Len(rows)
        k == Min(Cardinality(cited), n)
    IN  [num |-> 3 * SumSimilarity(rows) + 500 * k + 20 * ResponseQuality(r) * n,
         den |-> 1000 * n]

\* avgSimilarity*0.5 + citationCoverage*0.3 + responseQuality*0.2, as the
\* fraction num/den with den = 1000*n:
\*   avgSimilarity = sum/(100 n), citationCoverage = min(k/n, 1), quality = q/10
ConfidenceScore(rows, cited, r) ==
    LET n == Len(rows)
        k == Min(Cardinality(cited), n)
    IN  [num |-> 5 * SumSimilarity(rows) + 300 * k + 20 * ResponseQuality(r) * n,
         den |-> 1000 * n]

\* faulty variant: a score equal to the threshold counted as below it
BelowThreshold_orequal(c, threshold) == c.num * 100 <= threshold * c.den

\* confidenceScore < config.confidenceThreshold
BelowThreshold(c, threshold) == c.num * 100 < threshold * c.den

\* ------------------------------------------------------------- texts, payloads
\* A text given to the user or written to the log: one of the fixed messages,
\* or the model's response, with or without the low-confidence note appended.
FixedText(k) == [kind |-> k, ai |-> None, disclaimer |-> FALSE]
ModelText(r, d) == [kind |-> "model", ai |-> Some(r), disclaimer |-> d]

FallbackInsufficientSources == FixedText("fallback_insufficient_sources")
FallbackNoCitations == FixedText("fallback_no_citations")

\* faulty variant: the low_confidence branch answers with an empty string
FallbackLowConfidence_empty == FixedText("")

FallbackLowConfidence == FixedText("fallback_low_confidence")

ErrorApology == FixedText("error_apology")

Zero == [num |-> 0, den |-> 1]

\* The JSON body and status of a Response.  A key the code leaves out is "",
\* None or FALSE here.
Payload(st, resp, bl, rsn, conf, srcs, agent, trig, err) ==
    [status |-> st, response |-> resp, blocked |-> bl, reason |-> rsn,
     confidence |-> conf, sources |-> srcs, suggestAgent |-> agent,
     guardrailTriggered |-> trig, error |-> err]

\* catch (error): status 500 with error.message in the body
ErrorResponse(msg) ==
    Payload(500, ErrorApology, TRUE, "error", None, <<>>, FALSE, "", msg)

\* the row logInteraction inserts for LogData d
LogRow(d) ==
    [ai_response |-> d.aiResponse,
     guardrail_checks |-> d.guardrailChecks,
     sources_used |-> d.sourcesUsed,
     confidence_score |-> d.confidenceScore,
     hallucination_detected |-> d.hallucinationDetected,
     blocked_response |-> d.blockedResponse,
     fallback_message |-> d.fallbackMessage]

\* relevantChunks.map((chunk, idx) => ({index: idx + 1, ..., cited: ...}));
\* the row's id stands for the title and content preview copied from the row
SourcesUsed(rows, cited) ==
    [i \in 1..Len(rows) |->
        [index |-> i, documentId |-> rows[i].document_id, content |-> rows[i].id,
         similarity |-> rows[i].similarity, cited |-> (i - 1) \in cited]]

\* ------------------------------------------------------------------- inputs
Tokens == {[tag |-> "Source", num |-> n] : n \in CiteNums}
            \cup {[tag |-> "source", num |-> 1]}

TokenKey(t) == IF t.tag = "Source" THEN t.num ELSE 100

\* token lists are enumerated up to reordering
MarkerLists ==
    UNION {{m \in [1..k -> Tokens] :
              \A i \in 1..k : i < k => TokenKey(m[i]) <= TokenKey(m[i + 1])} :
           k \in 0..MaxMarkers}

Responses == {[body |-> b, markers |-> m] : b \in BodyLens, m \in MarkerLists}

ConfigTable(t, m, b, c, off) ==
    [n \in RuleNames |->
        [is_enabled |-> n \notin off,
         rule_value |-> CASE n = "min_confidence" -> t
                          [] n = "require_sources" -> m
                          [] n = "max_response_length" -> DefaultMaxTokens
                          [] n = "block_unsupported" -> b
                          [] n = "citation_required" -> c]]

\* Similarities of the stored chunks to one query embedding; the queries
\* enumerated are those whose similarity never increases with the chunk id.
QuerySimilarities ==
    {sim \in [ChunkIds -> Sims] :
        \A c \in ChunkIds : c + 1 \in ChunkIds => sim[c] >= sim[c + 1]}

\* the seeded rows (0.7, 1, true, true) and what the settings form saves over
\* them: any threshold and switches, or another minimum number of sources
ConfigTables ==
    {ConfigTable(t, DefaultMinSources, b, c, {}) :
        t \in StoredThresholds, b \in BOOLEAN, c \in BOOLEAN}
    \cup {ConfigTable(DefaultThreshold, m, TRUE, TRUE, {}) : m \in StoredMinSources}

\* nothing searched, uploaded or ingested outside the chat handler
LibraryIdle ==
    /\ searched = None
    /\ storage = {}
    /\ uploads = <<>>
    /\ runs = <<>>

\* ---------------------------------------------------------------------- Init
Init ==
    /\ ai_guardrails_config \in ConfigTables
    /\ documents = [d \in DocIds |->
                       [is_active |-> d = 1, processing_status |-> "completed"]]
    /\ document_chunks = {[id |-> c, document_id |-> IF c <= MaxChunks THEN 1 ELSE 2] :
                             c \in ChunkIds}
    /\ ai_guardrails_logs = <<>>
    /\ document_access_logs = 0
    /\ pc = "idle"
    /\ req = None
    /\ config = None
    /\ relevantChunks = None
    /\ aiResponse = None
    /\ citations = None
    /\ citedSourceIndices = None
    /\ confidenceScore = None
    /\ logData = None
    /\ pending = None
    /\ result = None
    /\ stages = <<>>
    /\ completionCalls = 0
    /\ logCalls = 0
    /\ logInsertFailed = FALSE
    /\ saving = None
    /\ chunker = None
    /\ LibraryIdle

\* faulty variant: a failed service call is answered like an empty retrieval
Throw_zerocandidates(msg) ==
    /\ result' = Some(Payload(200, FallbackInsufficientSources, TRUE,
                              "insufficient_sources", Some(Zero), <<>>, FALSE, "", ""))
    /\ stages' = Append(stages, "blocked")
    /\ pc' = "done"

\* throw inside the try block: the catch returns the error response
Throw(msg) ==
    /\ result' = Some(ErrorResponse(msg))
    /\ stages' = Append(stages, "error")
    /\ pc' = "done"

\* faulty variant: the no_citations branch does not return and falls through to STEP 8
Finish_fallthrough(outcome, d, p) ==
    /\ logData' = Some(d)
    /\ pending' = Some(p)
    /\ stages' = Append(stages, outcome)
    /\ pc' = IF p.reason = "no_citations" THEN "step8" ELSE "log"

\* a guardrail or the final step hands its LogData and payload on
Finish(outcome, d, p) ==
    /\ logData' = Some(d)
    /\ pending' = Some(p)
    /\ stages' = Append(stages, outcome)
    /\ pc' = "log"

\* ------------------------------------------------------------------- actions
\* const { query, sessionId, userId } = await req.json(); if (!query) throw
ReceiveRequest ==
    /\ UNCHANGED <<libVars, saving, chunker>>
    /\ pc = "idle"
    /\ \E q \in BOOLEAN :
          /\ req' = Some([query |-> q])
          /\ IF q
             THEN /\ pc' = "step1"
                  /\ stages' = <<"received">>
                  /\ UNCHANGED result
             ELSE /\ result' = Some(ErrorResponse("Query is required"))
                  /\ stages' = <<"received", "error">>
                  /\ pc' = "done"
    /\ UNCHANGED <<tables, ai_guardrails_logs, document_access_logs, config,
                   relevantChunks, aiResponse, citations, citedSourceIndices,
                   confidenceScore, logData, pending, completionCalls, logCalls,
                   logInsertFailed>>

\* STEP 1: the select gives the enabled rows, or no data when it fails
LoadConfig ==
    /\ UNCHANGED <<libVars, saving, chunker>>
    /\ pc = "step1"
    /\ \E ok \in BOOLEAN :
          config' = Some(ResolveConfig(IF ok THEN SelectEnabled(ai_guardrails_config)
                                             ELSE <<>>))
    /\ pc' = "step2"
    /\ UNCHANGED <<tables, ai_guardrails_logs, document_access_logs, req,
                   relevantChunks, aiResponse, citations, citedSourceIndices,
                   confidenceScore, logData, pending, result, stages,
                   completionCalls, logCalls, logInsertFailed>>

\* STEP 2: embeddings request
EmbedQuery ==
    /\ UNCHANGED <<libVars, saving, chunker>>
    /\ pc = "step2"
    /\ \E outcome \in {"ok", "not_ok", "rejected"} :
          CASE outcome = "ok" -> pc' = "step3" /\ UNCHANGED <<result, stages>>
            [] outcome = "not_ok" -> Throw("Failed to generate query embedding")
            [] outcome = "rejected" -> Throw("fetch failed")
    /\ UNCHANGED <<tables, ai_guardrails_logs, document_access_logs, req, config,
                   relevantChunks, aiResponse, citations, citedSourceIndices,
                   confidenceScore, logData, pending, completionCalls, logCalls,
                   logInsertFailed>>

\* STEP 3: rpc('search_document_chunks'); a search error is only reported
SearchChunks ==
    /\ UNCHANGED <<libVars, saving, chunker>>
    /\ pc = "step3"
    /\ \/ relevantChunks' = None
       \/ \E sim \in QuerySimilarities :
            \E rows \in search_document_chunks(documents, document_chunks, sim,
                                               MatchThreshold, MatchCount) :
               relevantChunks' = Some(rows)
    /\ pc' = "step4"
    /\ UNCHANGED <<tables, ai_guardrails_logs, document_access_logs, req, config,
                   aiResponse, citations, citedSourceIndices, confidenceScore,
                   logData, pending, result, stages, completionCalls, logCalls,
                   logInsertFailed>>

\* faulty variant: a gate resolves the rules again from the table
GateConfig_reread == ResolveConfig(SelectEnabled(ai_guardrails_config))

\* the constant config of STEP 1, which every guardrail reads
GateConfig == config[1]

\* faulty variant: a missing result is not looked at, only the length
InsufficientSources_lengthonly(chunks, cfg) ==
    chunks # None /\ Len(chunks[1]) < cfg.minSources

\* faulty variant: only a missing result counts, the length is not compared
InsufficientSources_nullonly(chunks, cfg) == chunks = None

\* !relevantChunks || relevantChunks.length < config.minSources
InsufficientSources(chunks, cfg) ==
    chunks = None \/ Len(chunks[1]) < cfg.minSources

\* STEP 4: guardrail #1, minimum sources
CheckSources ==
    /\ UNCHANGED <<libVars, saving, chunker>>
    /\ pc = "step4"
    /\ LET cfg == GateConfig
           found == IF relevantChunks = None THEN 0 ELSE Len(relevantChunks[1])
       IN  IF InsufficientSources(relevantChunks, cfg)
           THEN Finish("blocked",
                    [aiResponse |-> None,
                     guardrailChecks |-> [sources_found |-> found,
                                          min_sources_required |-> cfg.minSources,
                                          check_passed |-> FALSE,
                                          reason |-> "insufficient_sources"],
                     sourcesUsed |-> <<>>,
                     confidenceScore |-> Zero,
                     blockedResponse |-> TRUE,
                     fallbackMessage |-> Some(FallbackInsufficientSources),
                     hallucinationDetected |-> FALSE],
                    Payload(200, FallbackInsufficientSources, TRUE,
                            "insufficient_sources", Some(Zero), <<>>, FALSE, "", ""))
           ELSE /\ stages' = Append(stages, "sourced")
                /\ pc' = "step6"
                /\ UNCHANGED <<logData, pending>>
    /\ UNCHANGED <<tables, ai_guardrails_logs, document_access_logs, req, config,
                   relevantChunks, aiResponse, citations, citedSourceIndices,
                   confidenceScore, result, completionCalls, logCalls,
                   logInsertFailed>>

\* STEP 5-6: one chat completion request over the numbered context
GenerateResponse ==
    /\ UNCHANGED <<libVars, saving, chunker>>
    /\ pc = "step6"
    /\ completionCalls' = completionCalls + 1
    /\ \/ \E r \in Responses :
            /\ aiResponse' = Some(r)
            /\ stages' = Append(stages, "generated")
            /\ pc' = "step7"
            /\ UNCHANGED result
       \/ /\ \/ Throw("Failed to generate AI response")
             \/ Throw("fetch failed")
          /\ UNCHANGED aiResponse
    /\ UNCHANGED <<tables, ai_guardrails_logs, document_access_logs, req, config,
                   relevantChunks, citations, citedSourceIndices, confidenceScore,
                   logData, pending, logCalls, logInsertFailed>>

\* STEP 7: guardrail #2, citation verification
VerifyCitations ==
    /\ UNCHANGED <<libVars, saving, chunker>>
    /\ pc = "step7"
    /\ LET cfg == GateConfig
           rows == relevantChunks[1]
           cits == MatchAll(aiResponse[1].markers)
       IN  /\ citations' = Some(cits)
           /\ citedSourceIndices' = Some(CitedSourceIndices(cits, Len(rows)))
           /\ IF cfg.citationRequired /\ Len(cits) = 0
              THEN Finish("blocked",
                       [aiResponse |-> Some(ModelText(aiResponse[1], FALSE)),
                        guardrailChecks |-> [sources_found |-> Len(rows),
                                             citations_in_response |-> 0,
                                             citation_required |-> TRUE,
                                             check_passed |-> FALSE,
                                             reason |-> "no_citations"],
                        sourcesUsed |-> <<>>,
                        confidenceScore |-> Zero,
                        blockedResponse |-> TRUE,
                        fallbackMessage |-> Some(FallbackNoCitations),
                        hallucinationDetected |-> TRUE],
                       Payload(200, FallbackNoCitations, TRUE, "no_citations",
                               Some(Zero), <<>>, FALSE, "", ""))
              ELSE /\ stages' = Append(stages, "verified")
                   /\ pc' = "step8"
                   /\ UNCHANGED <<logData, pending>>
    /\ UNCHANGED <<tables, ai_guardrails_logs, document_access_logs, req, config,
                   relevantChunks, aiResponse, confidenceScore, result,
                   completionCalls, logCalls, logInsertFailed>>

\* STEP 8: confidence score
ScoreConfidence ==
    /\ UNCHANGED <<libVars, saving, chunker>>
    /\ pc = "step8"
    /\ confidenceScore' = Some(ConfidenceScore(relevantChunks[1],
                                               citedSourceIndices[1], aiResponse[1]))
    /\ stages' = Append(stages, "scored")
    /\ pc' = "step9"
    /\ UNCHANGED <<tables, ai_guardrails_logs, document_access_logs, req, config,
                   relevantChunks, aiResponse, citations, citedSourceIndices,
                   logData, pending, result, completionCalls, logCalls,
                   logInsertFailed>>

\* STEP 9: guardrail #3, minimum confidence; STEP 10 builds the accepted result
CheckConfidence ==
    /\ UNCHANGED <<libVars, saving, chunker>>
    /\ pc = "step9"
    /\ LET cfg == GateConfig
           rows == relevantChunks[1]
           score == confidenceScore[1]
           low == BelowThreshold(score, cfg.confidenceThreshold)
           finalResponse == ModelText(aiResponse[1], low)
           guardrailTriggered == IF low THEN "low_confidence_warning" ELSE ""
           sourcesUsed == SourcesUsed(rows, citedSourceIndices[1])
       IN  IF low /\ cfg.blockUnsupported
           THEN Finish("blocked",
                    [aiResponse |-> Some(ModelText(aiResponse[1], FALSE)),
                     guardrailChecks |-> [confidence_score |-> score,
                                          min_confidence |-> cfg.confidenceThreshold,
                                          check_passed |-> FALSE,
                                          reason |-> "low_confidence"],
                     sourcesUsed |-> [i \in 1..Len(rows) |->
                                        [document_id |-> rows[i].document_id,
                                         similarity |-> rows[i].similarity]],
                     confidenceScore |-> score,
                     blockedResponse |-> TRUE,
                     fallbackMessage |-> Some(FallbackLowConfidence),
                     hallucinationDetected |-> FALSE],
                    Payload(200, FallbackLowConfidence, TRUE, "low_confidence",
                            Some(score), <<>>, TRUE, "", ""))
           ELSE Finish(IF low THEN "warned" ELSE "accepted",
                    [aiResponse |-> Some(finalResponse),
                     guardrailChecks |-> [confidence_score |-> score,
                                          sources_found |-> Len(rows),
                                          citations_in_response |-> Len(citations[1]),
                                          all_checks_passed |-> TRUE,
                                          guardrail_triggered |-> guardrailTriggered],
                     sourcesUsed |-> sourcesUsed,
                     confidenceScore |-> score,
                     blockedResponse |-> FALSE,
                     fallbackMessage |-> None,
                     hallucinationDetected |-> FALSE],
                    Payload(200, finalResponse, FALSE, "", Some(score),
                            sourcesUsed, FALSE, guardrailTriggered, ""))
    /\ UNCHANGED <<tables, ai_guardrails_logs, document_access_logs, req, config,
                   relevantChunks, aiResponse, citations, citedSourceIndices,
                   confidenceScore, result, completionCalls, logCalls,
                   logInsertFailed>>

\* faulty variant: no try/catch, the failed insert reaches the handler's catch
logInteraction_throws(d, ok) ==
    /\ logCalls' = logCalls + 1
    /\ IF ok
       THEN /\ ai_guardrails_logs' = Append(ai_guardrails_logs, LogRow(d))
            /\ pc' = "return"
            /\ UNCHANGED <<logInsertFailed, result, stages>>
       ELSE /\ logInsertFailed' = TRUE
            /\ Throw("insert failed")
            /\ UNCHANGED ai_guardrails_logs

\* faulty variant: the row is inserted twice
logInteraction_twice(d, ok) ==
    /\ logCalls' = logCalls + 1
    /\ IF ok
       THEN /\ ai_guardrails_logs' = ai_guardrails_logs \o <<LogRow(d), LogRow(d)>>
            /\ UNCHANGED logInsertFailed
       ELSE /\ logInsertFailed' = TRUE
            /\ UNCHANGED ai_guardrails_logs
    /\ pc' = "return"
    /\ UNCHANGED <<result, stages>>

\* logInteraction: one insert into ai_guardrails_logs; a failed insert is
\* reported and nothing reaches the caller.
logInteraction(d, ok) ==
    /\ logCalls' = logCalls + 1
    /\ IF ok
       THEN /\ ai_guardrails_logs' = Append(ai_guardrails_logs, LogRow(d))
            /\ UNCHANGED logInsertFailed
       ELSE /\ logInsertFailed' = TRUE
            /\ UNCHANGED ai_guardrails_logs
    /\ pc' = "return"
    /\ UNCHANGED <<result, stages>>

\* await logInteraction(supabase, {...}) of whichever branch was taken
LogInteraction ==
    /\ UNCHANGED <<libVars, saving, chunker>>
    /\ pc = "log"
    /\ \E ok \in BOOLEAN : logInteraction(logData[1], ok)
    /\ UNCHANGED <<tables, document_access_logs, req, config, relevantChunks,
                   aiResponse, citations, citedSourceIndices, confidenceScore,
                   logData, pending, completionCalls>>

\* On the accepted path one document_access_logs row per retrieved chunk,
\* then, on every path, return new Response(JSON.stringify({...}))
ReturnResponse ==
    /\ UNCHANGED <<libVars, saving, chunker>>
    /\ pc = "return"
    /\ document_access_logs' =
          IF pending[1].blocked THEN document_access_logs
          ELSE document_access_logs + Len(relevantChunks[1])
    /\ result' = pending
    /\ pc' = "done"
    /\ UNCHANGED <<tables, ai_guardrails_logs, req, config,
                   relevantChunks, aiResponse, citations, citedSourceIndices,
                   confidenceScore, logData, pending, stages, completionCalls,
                   logCalls, logInsertFailed>>

Next ==
    \/ ReceiveRequest
    \/ LoadConfig
    \/ EmbedQuery
    \/ SearchChunks
    \/ CheckSources
    \/ GenerateResponse
    \/ VerifyCitations
    \/ ScoreConfidence
    \/ CheckConfidence
    \/ LogInteraction
    \/ ReturnResponse

Spec == Init /\ [][Next]_vars

\* The handler's steps that wait for the database or for nothing.  The
\* other two, EmbedQuery and GenerateResponse, are taken when the embeddings
\* or completions request settles; their fetch calls are given no signal and
\* no timer is set, so they have no step of their own for a silent service.
AwaitsNoService ==
    \/ ReceiveRequest
    \/ LoadConfig
    \/ SearchChunks
    \/ CheckSources
    \/ VerifyCitations
    \/ ScoreConfidence
    \/ CheckConfidence
    \/ LogInteraction
    \/ ReturnResponse

\* ========================================== admin settings page and the chat
\* what the form holds when Save is pressed: the slider gives n/100, the
\* number input (min 0) gives parseInt(value) || 0, the switches any value;
\* the edit followed raises both numbers and switches the citations off
FormSettings ==
    {[confidenceThreshold |-> 95, minSources |-> 2, requireCitation |-> FALSE,
      maxTokens |-> DefaultMaxTokens, blockUnsupported |-> TRUE]}

\* the updates array of saveSettings(), in its order
Updates(s) ==
    <<[rule_name |-> "min_confidence", rule_value |-> s.confidenceThreshold],
      [rule_name |-> "require_sources", rule_value |-> s.minSources],
      [rule_name |-> "citation_required", rule_value |-> s.requireCitation],
      [rule_name |-> "max_response_length", rule_value |-> s.maxTokens],
      [rule_name |-> "block_unsupported", rule_value |-> s.blockUnsupported]>>

\* .upsert({...update, is_enabled: true, ...}, { onConflict: 'rule_name' })
Upsert(table, update) ==
    [table EXCEPT ![update.rule_name] =
        [is_enabled |-> TRUE, rule_value |-> update.rule_value]]

\* Save pressed: setSaving(true); the button shows loading while a save runs,
\* one save is followed at a time
SaveSettings ==
    /\ saving = None
    /\ \E s \in FormSettings : saving' = Some([settings |-> s, next |-> 1])
    /\ UNCHANGED <<tables, libVars, chunker, ai_guardrails_logs,
                   document_access_logs, pc, req, config, relevantChunks, aiResponse, citations,
                   citedSourceIndices, confidenceScore, logData, pending,
                   result, stages, completionCalls, logCalls, logInsertFailed>>

\* one turn of the loop: the awaited upsert is applied or fails, its result is
\* not looked at; after the last one setSaving(false) lets Save be pressed again
UpsertRule ==
    /\ saving # None
    /\ LET update == Updates(saving[1].settings)[saving[1].next]
       IN  \E ok \in BOOLEAN :
              ai_guardrails_config' =
                 IF ok THEN Upsert(ai_guardrails_config, update)
                       ELSE ai_guardrails_config
    /\ saving' = IF saving[1].next = Len(Updates(saving[1].settings))
                 THEN None
                 ELSE Some([saving[1] EXCEPT !.next = @ + 1])
    /\ UNCHANGED <<documents, document_chunks, libVars, chunker,
                   ai_guardrails_logs, document_access_logs, pc, req, config, relevantChunks,
                   aiResponse, citations, citedSourceIndices, confidenceScore,
                   logData, pending, result, stages, completionCalls, logCalls,
                   logInsertFailed>>

\* the chat handler at rest over a store of SettingsChunks chunks of one
\* completed document, with one of the rule tables ts
SmallStore(ts) ==
    /\ ai_guardrails_config \in ts
    /\ documents = [d \in DocIds |->
                       [is_active |-> d = 1, processing_status |-> "completed"]]
    /\ document_chunks = {[id |-> c, document_id |-> 1] : c \in 1..SettingsChunks}
    /\ ai_guardrails_logs = <<>>
    /\ document_access_logs = 0
    /\ pc = "idle"
    /\ req = None
    /\ config = None
    /\ relevantChunks = None
    /\ aiResponse = None
    /\ citations = None
    /\ citedSourceIndices = None
    /\ confidenceScore = None
    /\ logData = None
    /\ pending = None
    /\ result = None
    /\ stages = <<>>
    /\ completionCalls = 0
    /\ logCalls = 0
    /\ logInsertFailed = FALSE
    /\ saving = None
    /\ chunker = None
    /\ LibraryIdle

\* the settings are edited over the seeded rows
InitSettings ==
    SmallStore({ConfigTable(DefaultThreshold, DefaultMinSources, TRUE, TRUE, {})})

NextSettings ==
    \/ Next
    \/ SaveSettings
    \/ UpsertRule

SpecSettings == InitSettings /\ [][NextSettings]_vars

\* ------------------------------------------- rule rows edited in the database
\* min_sources as the number input stores it, 0 included
RuleMinSources == {0, 1, 2}

\* rule tables with rows switched off in the database (no page writes
\* is_enabled = false) holding values other than the defaults, and tables
\* with every row enabled and any stored min_sources
RuleTables ==
    {ConfigTable(95, 2, FALSE, FALSE, off) :
        off \in {{"citation_required"}, {"block_unsupported"},
                 {"min_confidence", "require_sources"}, RuleNames}}
    \cup {ConfigTable(DefaultThreshold, m, TRUE, TRUE, {}) : m \in RuleMinSources}

InitRules == SmallStore(RuleTables)

SpecRules == InitRules /\ [][Next]_vars

\* =================================================== search RPC and soft delete
\* the chat handler at rest, with the seeded guardrail rows
ChatIdle ==
    /\ ai_guardrails_config =
          ConfigTable(DefaultThreshold, DefaultMinSources, TRUE, TRUE, {})
    /\ ai_guardrails_logs = <<>>
    /\ document_access_logs = 0
    /\ pc = "idle"
    /\ req = None
    /\ config = None
    /\ relevantChunks = None
    /\ aiResponse = None
    /\ citations = None
    /\ citedSourceIndices = None
    /\ confidenceScore = None
    /\ logData = None
    /\ pending = None
    /\ result = None
    /\ stages = <<>>
    /\ completionCalls = 0
    /\ logCalls = 0
    /\ logInsertFailed = FALSE
    /\ saving = None

\* statuses an uploaded document is found in
StoredStatuses == {"pending", "processing", "completed"}

SearchDocIds == {1, 2}
SearchChunkIds == 1..MaxStoredChunks

\* the stored chunks belong to the two documents alternately
SearchChunkRows ==
    {[id |-> c, document_id |-> 2 - (c % 2)] : c \in SearchChunkIds}

SearchSimilarities ==
    {sim \in [SearchChunkIds -> Sims] :
        \A c \in SearchChunkIds : c + 1 \in SearchChunkIds => sim[c] >= sim[c + 1]}

\* two listed documents with their chunk rows
InitSearch ==
    /\ ChatIdle
    /\ documents \in [SearchDocIds ->
                         {[is_active |-> TRUE, processing_status |-> st] :
                             st \in StoredStatuses}]
    /\ document_chunks = SearchChunkRows
    /\ chunker = None
    /\ LibraryIdle

\* DocumentLibrary.handleDelete of a listed row: update({is_active: false}).
\* A failed update changes nothing in the tables.
handleDelete(d) ==
    /\ documents[d].is_active
    /\ documents' = [documents EXCEPT ![d].is_active = FALSE]
    /\ UNCHANGED <<chatVars, document_chunks, libVars>>

HandleDelete == \E d \in DOMAIN documents : handleDelete(d)

\* supabase.rpc('search_document_chunks', {query_embedding, match_threshold:
\* 0.6, match_count: 5}) for the one query followed; docs records the
\* documents table the call ran on
SearchRpc ==
    /\ searched = None
    /\ \E sim \in SearchSimilarities :
          \E rows \in search_document_chunks(documents, document_chunks, sim,
                                             MatchThreshold, MatchCount) :
             searched' = Some([rows |-> rows, sim |-> sim, docs |-> documents])
    /\ UNCHANGED <<chatVars, documents, document_chunks, storage, uploads, runs>>

NextSearch ==
    \/ HandleDelete
    \/ SearchRpc

SpecSearch == InitSearch /\ [][NextSearch]_vars

\* ================================================================ chunkText
\* A text is a sequence of characters.
NL == "\n"
IsSpace(c) == c \in {" ", NL}

\* String.prototype.trim
Trim(s) ==
    IF \A i \in 1..Len(s) : IsSpace(s[i])
    THEN <<>>
    ELSE LET a == CHOOSE i \in 1..Len(s) :
                     ~IsSpace(s[i]) /\ \A j \in 1..(i - 1) : IsSpace(s[j])
             b == CHOOSE i \in 1..Len(s) :
                     ~IsSpace(s[i]) /\ \A j \in (i + 1)..Len(s) : IsSpace(s[j])
         IN  SubSeq(s, a, b)

\* s.slice(-n) for n >= 0: the last n characters, and all of s for n = 0
\* (-0 is 0) or n >= s.length
SliceFromEnd(s, n) ==
    IF n = 0 \/ n >= Len(s) THEN s ELSE SubSeq(s, Len(s) - n + 1, Len(s))

\* positions where a match of /\n\n+/ starts, and where the match ends
SeparatorStarts(t) ==
    {i \in 1..(Len(t) - 1) :
        t[i] = NL /\ t[i + 1] = NL /\ (i = 1 \/ t[i - 1] # NL)}
SeparatorEnd(t, i) ==
    CHOOSE j \in (i + 1)..Len(t) :
        /\ \A k \in i..j : t[k] = NL
        /\ (j = Len(t) \/ t[j + 1] # NL)

\* text.split(/\n\n+/) from position p on
RECURSIVE SplitFrom(_, _)
SplitFrom(t, p) ==
    LET seps == {i \in SeparatorStarts(t) : i >= p}
    IN  IF seps = {}
        THEN <<SubSeq(t, p, Len(t))>>
        ELSE LET i == CHOOSE x \in seps : \A y \in seps : x <= y
             IN  <<SubSeq(t, p, i - 1)>> \o SplitFrom(t, SeparatorEnd(t, i) + 1)
Split(t) == SplitFrom(t, 1)

\* paragraph.length < 100 && paragraph.trim().match(/^[A-Z0-9\s\-:\.]+$/)
HeadingChars ==
    {"A", "B", "C", "D", "E", "F", "G", "H", "I", "J", "K", "L", "M", "N", "O",
     "P", "Q", "R", "S", "T", "U", "V", "W", "X", "Y", "Z", "0", "1", "2", "3",
     "4", "5", "6", "7", "8", "9", " ", NL, "-", ":", "."}
IsSectionHeader(paragraph) ==
    /\ Len(paragraph) < SectionMaxLen
    /\ Trim(paragraph) # <<>>
    /\ \A i \in 1..Len(Trim(paragraph)) : Trim(paragraph)[i] \in HeadingChars

\* Math.ceil(n / PageChars) for n >= 0
PageOf(n) == (n + PageChars - 1) \div PageChars

NewChunk(st) ==
    [content |-> Trim(st.currentChunk), pageNumber |-> st.pageNumber,
     sectionTitle |-> st.currentSection, charStart |-> st.currentStart,
     charEnd |-> st.charPosition]

\* the locals of chunkText before the loop
ChunkerStart ==
    [chunks |-> <<>>, currentChunk |-> <<>>, currentStart |-> 0,
     charPosition |-> 0, currentSection |-> None, pageNumber |-> 1]

\* one turn of the loop over the paragraphs
ChunkerTurn(st, paragraph, options) ==
    LET section == IF IsSectionHeader(paragraph) THEN Some(Trim(paragraph))
                                                 ELSE st.currentSection
        s == [st EXCEPT !.currentSection = section]
        position == st.charPosition + Len(paragraph) + 2
    IN  IF /\ Len(s.currentChunk) + Len(paragraph) > options.maxChars
           /\ Len(s.currentChunk) > 0
        THEN [s EXCEPT
                !.chunks = Append(@, NewChunk(s)),
                !.currentChunk = SliceFromEnd(s.currentChunk, options.overlap)
                                    \o <<NL, NL>> \o paragraph,
                !.currentStart = s.charPosition - options.overlap,
                !.charPosition = position,
                !.pageNumber = PageOf(position)]
        ELSE [s EXCEPT
                !.currentChunk = @ \o (IF @ # <<>> THEN <<NL, NL>> ELSE <<>>)
                                   \o paragraph,
                !.charPosition = position,
                !.pageNumber = PageOf(position)]

RECURSIVE ChunkerLoop(_, _, _, _)
ChunkerLoop(st, paragraphs, k, options) ==
    IF k > Len(paragraphs)
    THEN st
    ELSE ChunkerLoop(ChunkerTurn(st, paragraphs[k], options), paragraphs,
                     k + 1, options)

chunkText(text, options) ==
    LET st == ChunkerLoop(ChunkerStart, Split(text), 1, options)
    IN  IF Trim(st.currentChunk) # <<>>
        THEN Append(st.chunks, NewChunk(st))
        ELSE st.chunks

\* ---------------------------------------------------- chunkText on its own
Chars == {"a", " ", NL}
Texts == UNION {[1..n -> Chars] : n \in 0..MaxTextLen}
ChunkOptions ==
    {[maxChars |-> m, overlap |-> o] : m \in 1..MaxChunkChars, o \in 0..MaxOverlap}

\* nothing else runs; one text and one options value are at hand
InitChunk ==
    /\ ChatIdle
    /\ documents = <<>>
    /\ document_chunks = {}
    /\ LibraryIdle
    /\ \E t \in Texts, o \in ChunkOptions :
          chunker = Some([text |-> t, options |-> o, chunks |-> None])

CallChunkText ==
    /\ chunker # None
    /\ chunker[1].chunks = None
    /\ chunker' = Some([chunker[1] EXCEPT
                           !.chunks = Some(chunkText(chunker[1].text,
                                                     chunker[1].options))])
    /\ UNCHANGED <<tables, libVars, saving, ai_guardrails_logs,
                   document_access_logs, pc, req, config, relevantChunks,
                   aiResponse, citations, citedSourceIndices, confidenceScore,
                   logData, pending, result, stages, completionCalls, logCalls,
                   logInsertFailed>>

NextChunk == CallChunkText

SpecChunk == InitChunk /\ [][NextChunk]_vars

\* ============================================== upload page and process-document
\* browser sessions with the upload page open, one pending file each
Uploaders == {1, 2}

\* A dropped file: its SHA-256 and the kind of text fileData.text() gives.
Files ==
    {[hash |-> "H1", text |-> "paragraphs"], [hash |-> "H2", text |-> "short"],
     [hash |-> "H3", text |-> "blank"]}

\* The text of a file: MaxFileChunks paragraphs that do not fit a chunk
\* two at a time, a text under the minimum length, or spaces only.
RECURSIVE Paragraphs(_)
Paragraphs(n) ==
    LET paragraph == [i \in 1..(ChunkMaxChars - ChunkOverlap) |-> "a"]
    IN  IF n = 1 THEN paragraph ELSE Paragraphs(n - 1) \o <<NL, NL>> \o paragraph
FileText(kind) ==
    CASE kind = "paragraphs" -> Paragraphs(MaxFileChunks)
      [] kind = "short" -> [i \in 1..(ExtractMinLen - 1) |-> "a"]
      [] kind = "blank" -> [i \in 1..ExtractMinLen |-> " "]

\* the row uploadFiles inserts, with the column defaults of the table
NewDocument(hash, path) ==
    [file_hash |-> hash, file_path |-> path, is_active |-> TRUE,
     processing_status |-> "pending", processing_error |-> None,
     total_pages |-> None, total_chunks |-> 0, processed_at |-> None]

\* .eq('file_hash', fileHash).eq('is_active', true)
ActiveWithHash(docs, hash) ==
    {d \in DOMAIN docs : docs[d].file_hash = hash /\ docs[d].is_active}

\* .single(): the row when exactly one matches, otherwise data is null
Single(rows) == IF Cardinality(rows) = 1 THEN Some(CHOOSE d \in rows : TRUE) ELSE None

\* A request to process-document as the handler receives it.  retry notes
\* that it comes after an invocation for the same document ended in an error
\* while none is in progress.
NewRun(documentId) ==
    [documentId |-> documentId, pc |-> "start", bodyUsed |-> FALSE,
     doc |-> None, chunks |-> 0, chunkIndex |-> 0, response |-> None,
     retry |-> /\ \E r \in DOMAIN runs :
                     /\ runs[r].documentId = documentId
                     /\ runs[r].pc = "done"
                     /\ ~runs[r].response[1].success
               /\ \A r \in DOMAIN runs :
                     runs[r].documentId = documentId => runs[r].pc = "done"]

\* empty tables and bucket, the upload page open in the sessions us
EmptyLibrary(us) ==
    /\ ChatIdle
    /\ documents = <<>>
    /\ document_chunks = {}
    /\ searched = None
    /\ storage = {}
    /\ uploads = [u \in us |->
                     [pc |-> "idle", file |-> None, docId |-> None, run |-> None]]
    /\ runs = <<>>
    /\ chunker = None

\* ------------------------------------------------------------- uploadFiles
\* a file is dropped and Upload is pressed; the hash is computed
StartUpload(u) ==
    /\ uploads[u].pc = "idle"
    /\ \E f \in Files :
          uploads' = [uploads EXCEPT ![u].pc = "check", ![u].file = Some(f)]
    /\ UNCHANGED <<chatVars, documents, document_chunks, searched, storage, runs>>

\* Check for duplicates: if (existingDoc) { status: 'error', ...; continue }
CheckDuplicate(u) ==
    /\ uploads[u].pc = "check"
    /\ LET existingDoc == Single(ActiveWithHash(documents, uploads[u].file[1].hash))
       IN  uploads' = [uploads EXCEPT
                          ![u].pc = IF existingDoc # None THEN "duplicate"
                                    ELSE "store"]
    /\ UNCHANGED <<chatVars, documents, document_chunks, searched, storage, runs>>

\* supabase.storage.from('documents').upload(fileName, file); the file name
\* carries Date.now(), the uploader stands for it
StoreFile(u) ==
    /\ uploads[u].pc = "store"
    /\ \E ok \in BOOLEAN :
          IF ok
          THEN /\ storage' = storage \cup {[path |-> u, file |-> uploads[u].file[1]]}
               /\ uploads' = [uploads EXCEPT ![u].pc = "insert"]
          ELSE /\ uploads' = [uploads EXCEPT ![u].pc = "error"]
               /\ UNCHANGED storage
    /\ UNCHANGED <<chatVars, documents, document_chunks, searched, runs>>

\* Create document record: insert({... processing_status: 'pending'})
InsertRecord(u) ==
    /\ uploads[u].pc = "insert"
    /\ \E ok \in BOOLEAN :
          IF ok
          THEN /\ documents' = Append(documents,
                                      NewDocument(uploads[u].file[1].hash, u))
               /\ uploads' = [uploads EXCEPT ![u].pc = "invoke",
                                             ![u].docId = Some(Len(documents) + 1)]
          ELSE /\ uploads' = [uploads EXCEPT ![u].pc = "error"]
               /\ UNCHANGED documents
    /\ UNCHANGED <<chatVars, document_chunks, searched, storage, runs>>

\* Trigger processing: functions.invoke('process-document', {documentId})
TriggerProcessing(u) ==
    /\ uploads[u].pc = "invoke"
    /\ Len(runs) < MaxRuns
    /\ runs' = Append(runs, NewRun(uploads[u].docId[1]))
    /\ uploads' = [uploads EXCEPT ![u].pc = "await", ![u].run = Some(Len(runs) + 1)]
    /\ UNCHANGED <<chatVars, documents, document_chunks, searched, storage>>

\* the invocation has answered (whatever it answered): status 'completed'
FinishUpload(u) ==
    /\ uploads[u].pc = "await"
    /\ runs[uploads[u].run[1]].pc = "done"
    /\ uploads' = [uploads EXCEPT ![u].pc = "completed"]
    /\ UNCHANGED <<chatVars, documents, document_chunks, searched, storage, runs>>

\* -------------------------------------------------------- process-document
\* Any other POST {documentId} to the function, for a stored document.
\* DocumentLibrary.reprocessDocument makes this call after writing 'pending',
\* from a button shown for rows read as 'failed'; no step below writes that
\* status (see Catch), so the button's own step does not occur.
InvokeIngestion ==
    /\ Len(runs) < MaxRuns
    /\ \E d \in DOMAIN documents : runs' = Append(runs, NewRun(d))
    /\ UNCHANGED <<chatVars, documents, document_chunks, searched, storage, uploads>>

\* Request.clone() throws a TypeError when the body has been read
RequestCloneThrows(bodyUsed) == bodyUsed

\* new Response(JSON.stringify({ error: error.message }), { status: 500 })
ErrorPayload(msg) ==
    [status |-> 500, success |-> FALSE, chunks |-> 0, error |-> msg]

\* the success response: { success: true, documentId, chunks, message }
SuccessPayload(n) ==
    [status |-> 200, success |-> TRUE, chunks |-> n, error |-> ""]

\* catch (error): the inner try reads documentId from req.clone(); on a
\* request whose body the try block has read, clone() throws, the inner catch
\* reports it, and the update to 'failed' is not reached
Catch(r, msg) ==
    /\ documents' =
          IF RequestCloneThrows(runs[r].bodyUsed) THEN documents
          ELSE [documents EXCEPT
                   ![runs[r].documentId].processing_status = "failed",
                   ![runs[r].documentId].processing_error = Some(msg)]
    /\ runs' = [runs EXCEPT ![r].pc = "done",
                            ![r].response = Some(ErrorPayload(msg))]

\* const { documentId } = await req.json(); select('*').eq('id', documentId)
ReadDocument(r) ==
    /\ runs[r].pc = "start"
    /\ runs' = [runs EXCEPT ![r].pc = "loaded", ![r].bodyUsed = TRUE,
                            ![r].doc = Some(documents[runs[r].documentId])]
    /\ UNCHANGED <<chatVars, documents, document_chunks, searched, storage, uploads>>

\* Update status to processing
SetProcessing(r) ==
    /\ runs[r].pc = "loaded"
    /\ documents' = [documents EXCEPT
                         ![runs[r].documentId].processing_status = "processing"]
    /\ runs' = [runs EXCEPT ![r].pc = "download"]
    /\ UNCHANGED <<chatVars, document_chunks, searched, storage, uploads>>

\* Download file from storage, extract the text, chunkText
DownloadAndExtract(r) ==
    /\ runs[r].pc = "download"
    /\ \E ok \in BOOLEAN :
          LET stored == CHOOSE x \in storage : x.path = runs[r].doc[1].file_path
              extractedText == FileText(stored.file.text)
              chunks == chunkText(extractedText, [maxChars |-> ChunkMaxChars,
                                                  overlap |-> ChunkOverlap])
          IN  IF ~ok
              THEN Catch(r, "download failed")
              ELSE IF Len(extractedText) < ExtractMinLen
                   THEN Catch(r, "Could not extract text from document")
                   ELSE /\ runs' = [runs EXCEPT ![r].pc = "chunk",
                                                ![r].chunks = Len(chunks),
                                                ![r].chunkIndex = 0]
                        /\ UNCHANGED documents
    /\ UNCHANGED <<chatVars, document_chunks, searched, storage, uploads>>

\* one turn of the loop: embeddings request, then the insert of the chunk;
\* the row's id names the invocation that wrote it
ProcessChunk(r) ==
    /\ runs[r].pc = "chunk"
    /\ runs[r].chunkIndex < runs[r].chunks
    /\ \E outcome \in {"stored", "insert_error", "embedding_error"} :
          CASE outcome = "embedding_error" ->
                 /\ Catch(r, "OpenAI API error")
                 /\ UNCHANGED document_chunks
            [] outcome = "insert_error" ->
                 /\ runs' = [runs EXCEPT ![r].chunkIndex = @ + 1]
                 /\ UNCHANGED <<documents, document_chunks>>
            [] outcome = "stored" ->
                 /\ document_chunks' = document_chunks \cup
                       {[id |-> <<r, runs[r].chunkIndex>>,
                         document_id |-> runs[r].documentId,
                         chunk_index |-> runs[r].chunkIndex]}
                 /\ runs' = [runs EXCEPT ![r].chunkIndex = @ + 1]
                 /\ UNCHANGED documents
    /\ UNCHANGED <<chatVars, searched, storage, uploads>>

\* Update document as completed, and the success response
Complete(r) ==
    /\ runs[r].pc = "chunk"
    /\ runs[r].chunkIndex = runs[r].chunks
    /\ documents' = [documents EXCEPT
                         ![runs[r].documentId].processing_status = "completed",
                         ![runs[r].documentId].processed_at = Some(TRUE),
                         ![runs[r].documentId].total_pages = Some(1),
                         ![runs[r].documentId].total_chunks = runs[r].chunks]
    /\ runs' = [runs EXCEPT ![r].pc = "done",
                            ![r].response = Some(SuccessPayload(runs[r].chunks))]
    /\ UNCHANGED <<chatVars, document_chunks, searched, storage, uploads>>

\* one session uploads; the function is invoked by it and by other callers
InitIngest == EmptyLibrary({1})

NextIngest ==
    \/ \E u \in DOMAIN uploads : StartUpload(u)
    \/ \E u \in DOMAIN uploads : CheckDuplicate(u)
    \/ \E u \in DOMAIN uploads : StoreFile(u)
    \/ \E u \in DOMAIN uploads : InsertRecord(u)
    \/ \E u \in DOMAIN uploads : TriggerProcessing(u)
    \/ \E u \in DOMAIN uploads : FinishUpload(u)
    \/ InvokeIngestion
    \/ \E r \in DOMAIN runs : ReadDocument(r)
    \/ \E r \in DOMAIN runs : SetProcessing(r)
    \/ \E r \in DOMAIN runs : DownloadAndExtract(r)
    \/ \E r \in DOMAIN runs : ProcessChunk(r)
    \/ \E r \in DOMAIN runs : Complete(r)

SpecIngest == InitIngest /\ [][NextIngest]_vars

\* two sessions upload at the same time
InitUpload == EmptyLibrary(Uploaders)

NextUpload ==
    \/ \E u \in DOMAIN uploads : StartUpload(u)
    \/ \E u \in DOMAIN uploads : CheckDuplicate(u)
    \/ \E u \in DOMAIN uploads : StoreFile(u)
    \/ \E u \in DOMAIN uploads : InsertRecord(u)
    \/ \E u \in DOMAIN uploads : TriggerProcessing(u)
    \/ \E u \in DOMAIN uploads : FinishUpload(u)
    \/ \E r \in DOMAIN runs : ReadDocument(r)
    \/ \E r \in DOMAIN runs : SetProcessing(r)
    \/ \E r \in DOMAIN runs : DownloadAndExtract(r)
    \/ \E r \in DOMAIN runs : ProcessChunk(r)
    \/ \E r \in DOMAIN runs : Complete(r)

SpecUpload == InitUpload /\ [][NextUpload]_vars

\* ==================================================================== claims
Last(seq) == seq[Len(seq)]
IsPrefix(a, b) == Len(a) <= Len(b) /\ \A i \in 1..Len(a) : a[i] = b[i]
TerminalOutcomes == {"accepted", "warned", "blocked"}
AfterLog == pc \in {"return", "done"} /\ Last(stages) \in TerminalOutcomes
Decided == pc \in {"log", "return", "done"} /\ Last(stages) \in TerminalOutcomes

\* the search has answered and guardrail #1 has been evaluated
PastSourceCheck ==
    /\ pc \in {"step6", "step7", "step8", "step9", "log", "return", "done"}
    /\ stages # <<"received", "error">>

FewerThanMinSources ==
    \/ relevantChunks = None
    \/ Len(relevantChunks[1]) < config[1].minSources

\* C1: whenever retrieval returned fewer candidates than minSources (or
\* nothing), the query is blocked with reason insufficient_sources, no
\* completion request was sent, and every log row written has a null
\* ai_response.
C1_InsufficientSourcesBlocks ==
    (PastSourceCheck /\ FewerThanMinSources) =>
        /\ Last(stages) = "blocked"
        /\ pending # None
        /\ pending[1].blocked
        /\ pending[1].reason = "insufficient_sources"
        /\ completionCalls = 0
        /\ \A i \in 1..Len(ai_guardrails_logs) :
              ai_guardrails_logs[i].ai_response = None
        /\ (pc = "done" => result = pending)

\* one candidate found where two are required, blocked and logged
C1_Witness ==
    /\ pc = "done"
    /\ relevantChunks # None
    /\ Len(relevantChunks[1]) = 1
    /\ config[1].minSources = 2
    /\ result[1].reason = "insufficient_sources"
    /\ Len(ai_guardrails_logs) = 1
    /\ ai_guardrails_logs[1].ai_response = None

\* no token of the response has the form [Source <integer>]
NoCitationMarker(r) ==
    \A i \in 1..Len(r.markers) : r.markers[i].tag # "Source"

\* C2: when citation verification has run with citationRequired = true on a
\* response without any [Source <integer>] marker, the query is blocked with
\* reason no_citations and what is logged has hallucination_detected = true.
C2_NoCitationsBlocks ==
    (/\ citations # None
     /\ config[1].citationRequired
     /\ NoCitationMarker(aiResponse[1])) =>
        /\ Last(stages) = "blocked"
        /\ pending # None
        /\ pending[1].blocked
        /\ pending[1].reason = "no_citations"
        /\ logData[1].hallucinationDetected
        /\ \A i \in 1..Len(ai_guardrails_logs) :
              ai_guardrails_logs[i].hallucination_detected
        /\ (pc = "done" => result = pending)

\* a response whose only bracketed token is the lower-case "[source 1]"
C2_Witness ==
    /\ pc = "done"
    /\ citations # None
    /\ config[1].citationRequired
    /\ aiResponse[1].markers = <<[tag |-> "source", num |-> 1]>>
    /\ result[1].reason = "no_citations"
    /\ Len(ai_guardrails_logs) = 1
    /\ ai_guardrails_logs[1].hallucination_detected

ScoreIsLow ==
    confidenceScore[1].num * 100 <
        config[1].confidenceThreshold * confidenceScore[1].den

\* C3: after scoring, a confidence below the threshold gives blocked /
\* low_confidence with suggestAgent when blockUnsupported is on, and a
\* non-blocked result carrying the model's text plus the disclaimer and the
\* low_confidence_warning flag when it is off; a confidence at or above the
\* threshold gives the model's text unchanged with no warning.
C3_ConfidenceDecision ==
    (confidenceScore # None /\ pc \in {"log", "return", "done"}) =>
        LET p == pending[1] IN
        /\ (ScoreIsLow /\ config[1].blockUnsupported) =>
              /\ Last(stages) = "blocked"
              /\ p.blocked
              /\ p.reason = "low_confidence"
              /\ p.suggestAgent
        /\ (ScoreIsLow /\ ~config[1].blockUnsupported) =>
              /\ Last(stages) = "warned"
              /\ ~p.blocked
              /\ p.guardrailTriggered = "low_confidence_warning"
              /\ p.response = [kind |-> "model", ai |-> aiResponse, disclaimer |-> TRUE]
        /\ ~ScoreIsLow =>
              /\ Last(stages) = "accepted"
              /\ ~p.blocked
              /\ p.guardrailTriggered = ""
              /\ p.response = [kind |-> "model", ai |-> aiResponse, disclaimer |-> FALSE]
        /\ (pc = "done" => result = pending)

\* a low score with blocking switched off, returned with the disclaimer
C3_Witness ==
    /\ pc = "done"
    /\ confidenceScore # None
    /\ ScoreIsLow
    /\ ~config[1].blockUnsupported
    /\ ~result[1].blocked
    /\ result[1].response.disclaimer

GatePath == <<"received", "sourced", "generated", "verified", "scored">>

\* C4: the outcome states are passed in the fixed order received, sourced,
\* generated, verified, scored; a block ends the path where its gate stands
\* (after received, after generated or after scored) and nothing of a later
\* gate has happened then: no completion request after an insufficient_sources
\* block, no confidence score after a no_citations block; accepted and warned
\* come only at the end of the whole path.
C4_GateOrder ==
    /\ \/ IsPrefix(stages, GatePath)
       \/ /\ Len(stages) >= 2
          /\ IsPrefix(SubSeq(stages, 1, Len(stages) - 1), GatePath)
          /\ \/ Last(stages) = "error" /\ Len(stages) \in {2, 3}
             \/ Last(stages) = "blocked" /\ Len(stages) \in {2, 4, 6}
             \/ Last(stages) \in {"accepted", "warned"} /\ Len(stages) = 6
    /\ completionCalls <= 1
    /\ (aiResponse # None) => (Len(stages) >= 3 /\ stages[3] = "generated")
    /\ (citations # None) => (aiResponse # None /\ completionCalls = 1)
    /\ (confidenceScore # None) => (Len(stages) >= 5 /\ stages[4] = "verified")
    /\ (stages = <<"received", "blocked">>) =>
          (completionCalls = 0 /\ citations = None /\ confidenceScore = None)
    /\ (stages = <<"received", "sourced", "generated", "blocked">>) =>
          (completionCalls = 1 /\ confidenceScore = None)
    /\ (pc = "done" /\ Last(stages) \in TerminalOutcomes) =>
          (result[1].blocked <=> Last(stages) = "blocked")

\* a query stopped by the citation gate, returned without a score
C4_Witness ==
    /\ pc = "done"
    /\ stages = <<"received", "sourced", "generated", "blocked">>
    /\ result[1].reason = "no_citations"
    /\ confidenceScore = None

\* C5 as stated: every query that ended blocked, warned or accepted has
\* exactly one row in ai_guardrails_logs.
C5_ExactlyOneEntry ==
    (pc = "done" /\ Last(stages) \in TerminalOutcomes) =>
        Len(ai_guardrails_logs) = 1

\* C5, amended: every query that reaches blocked, warned or accepted calls
\* logInteraction exactly once, after the outcome is fixed and before the
\* response is returned; the call leaves exactly one row, the row of that
\* outcome, when its insert succeeds and no row when the insert fails; there
\* are never two rows.
C5_OneLogCallBeforeReturn ==
    /\ (pc = "log") => (logCalls = 0 /\ result = None)
    /\ AfterLog =>
          /\ logCalls = 1
          /\ Len(ai_guardrails_logs) = (IF logInsertFailed THEN 0 ELSE 1)
          /\ ~logInsertFailed => ai_guardrails_logs[1] = LogRow(logData[1])
    /\ (result # None /\ Last(stages) \in TerminalOutcomes) => logCalls = 1
    /\ Len(ai_guardrails_logs) <= 1

\* a warned query, returned with its one log row written
C5_Witness ==
    /\ pc = "done"
    /\ Last(stages) = "warned"
    /\ logCalls = 1
    /\ Len(ai_guardrails_logs) = 1
    /\ ~ai_guardrails_logs[1].blocked_response

\* C6: every chat query (a request that carries a query) that has ended,
\* whatever way, has one row in ai_guardrails_logs; stated for the runs in
\* which no log insert failed.
C6_EveryQueryLogged ==
    (pc = "done" /\ req[1].query /\ ~logInsertFailed) =>
        Len(ai_guardrails_logs) = 1

\* C7: a query whose logInteraction call was made returns the payload its
\* guardrail branch built before the call, with status 200 and an outcome of
\* blocked, warned or accepted, whether the insert succeeded or failed.
C7_LogFailureNotPropagated ==
    /\ (pc = "done" /\ logCalls = 1) =>
          /\ result = pending
          /\ result[1].status = 200
          /\ result[1].reason # "error"
          /\ Last(stages) \in TerminalOutcomes
    /\ (pc = "return") => (result = None /\ Last(stages) \in TerminalOutcomes)

\* an accepted or warned answer returned although its log insert failed
C7_Witness ==
    /\ pc = "done"
    /\ logInsertFailed
    /\ Len(ai_guardrails_logs) = 0
    /\ result = pending
    /\ ~result[1].blocked

RECURSIVE TotalSimilarity(_, _)
TotalSimilarity(rows, i) ==
    IF i = 0 THEN 0 ELSE rows[i].similarity + TotalSimilarity(rows, i - 1)

\* source numbers 1..n named by some [Source N] marker of the response
DistinctCitedSources(r, n) ==
    {k \in 1..n : \E i \in 1..Len(r.markers) :
                     r.markers[i] = [tag |-> "Source", num |-> k]}

\* 0.2 * responseQualityFactor in thousandths: 1.0 strictly between 50 and
\* 3000 characters, 0.7 otherwise
QualityTerm(r) ==
    LET len == r.body + 10 * Len(r.markers)
    IN  IF 50 < len /\ len < 3000 THEN 200 ELSE 140

\* C8: the confidence score equals 0.5*avgSimilarity + 0.3*citationCoverage
\* + 0.2*responseQualityFactor, with the mean similarity taken over all
\* retrieved candidates, the coverage min(distinct in-range cited sources /
\* retrieved sources, 1), and the quality factor 1.0 for a length strictly
\* between 50 and 3000 and 0.7 otherwise; with mean 0.9, coverage 1 and
\* quality 1 it is 0.95.
C8_ConfidenceFormula ==
    (confidenceScore # None) =>
        LET rows == relevantChunks[1]
            n == Len(rows)
            sum == TotalSimilarity(rows, n)
            k == Cardinality(DistinctCitedSources(aiResponse[1], n))
            c == confidenceScore[1]
        IN  /\ n > 0
            /\ c.den > 0
            /\ c.num * 1000 * n =
                  c.den * (5 * sum + 300 * Min(k, n) + QualityTerm(aiResponse[1]) * n)
            /\ (sum = 90 * n /\ k = n /\ QualityTerm(aiResponse[1]) = 200) =>
                  c.num * 100 = 95 * c.den

\* mean similarity 0.9, every source cited, length in range: 0.95
C8_Witness ==
    /\ confidenceScore # None
    /\ TotalSimilarity(relevantChunks[1], Len(relevantChunks[1]))
          = 90 * Len(relevantChunks[1])
    /\ DistinctCitedSources(aiResponse[1], Len(relevantChunks[1]))
          = 1..Len(relevantChunks[1])
    /\ QualityTerm(aiResponse[1]) = 200
    /\ confidenceScore[1].num * 100 = 95 * confidenceScore[1].den

\* scenario B: three candidates of mean similarity 0.85, all three cited,
\* quality factor 1.0, threshold 0.7
ScenarioB ==
    /\ confidenceScore # None
    /\ Len(relevantChunks[1]) = 3
    /\ TotalSimilarity(relevantChunks[1], 3) = 255
    /\ DistinctCitedSources(aiResponse[1], 3) = {1, 2, 3}
    /\ QualityTerm(aiResponse[1]) = 200
    /\ config[1].confidenceThreshold = 70

\* C9 as stated: in scenario B the confidence is 0.725 and the outcome is
\* accepted.
C9_ScenarioB_0725 ==
    ScenarioB =>
        /\ confidenceScore[1].num * 1000 = 725 * confidenceScore[1].den
        /\ Decided => Last(stages) = "accepted"

\* C9, amended: in scenario B the confidence is 0.925 and the outcome is
\* accepted.
C9_ScenarioB_0925 ==
    ScenarioB =>
        /\ confidenceScore[1].num * 1000 = 925 * confidenceScore[1].den
        /\ Decided => (Last(stages) = "accepted" /\ ~pending[1].blocked)
        /\ (pc = "done") => (result = pending /\ result[1].guardrailTriggered = "")

\* scenario B run to its accepted response
C9_Witness ==
    /\ ScenarioB
    /\ pc = "done"
    /\ Last(stages) = "accepted"
    /\ result[1].confidence = confidenceScore

\* C10: an accepted or warned result lists one source per retrieved
\* candidate, in retrieval order and numbered from 1; source N is marked cited
\* exactly when a marker [Source N] occurs in the response; the result carries
\* the computed confidence score.
C10_SourcesAndCitedFlags ==
    (pc = "done" /\ Last(stages) \in {"accepted", "warned"}) =>
        LET rows == relevantChunks[1]
            src == result[1].sources
        IN  /\ Len(src) = Len(rows)
            /\ \A i \in 1..Len(rows) :
                  /\ src[i].index = i
                  /\ src[i].content = rows[i].id
                  /\ src[i].documentId = rows[i].document_id
                  /\ src[i].similarity = rows[i].similarity
                  /\ src[i].cited <=>
                        (i \in DistinctCitedSources(aiResponse[1], Len(rows)))
            /\ result[1].confidence = confidenceScore
            /\ confidenceScore # None

\* three sources returned, the first and third cited, the second not
C10_Witness ==
    /\ pc = "done"
    /\ Last(stages) \in {"accepted", "warned"}
    /\ Len(result[1].sources) = 3
    /\ result[1].sources[1].cited
    /\ ~result[1].sources[2].cited
    /\ result[1].sources[3].cited

GuardrailReasons == {"insufficient_sources", "no_citations", "low_confidence"}

FallbackKinds ==
    {"fallback_insufficient_sources", "fallback_no_citations",
     "fallback_low_confidence"}

\* C11: whenever a query has ended blocked by a guardrail, the payload built
\* for the user (and returned once the handler is done) has one of the three
\* reason codes and, as its response, the fixed fallback message of that
\* guardrail: not the model's text, not an empty string, not the error
\* apology or an error detail; its sources list is empty.
C11_BlockedGivesFallback ==
    (Decided /\ Last(stages) = "blocked") =>
        /\ pending # None
        /\ pending[1].blocked
        /\ pending[1].reason \in GuardrailReasons
        /\ pending[1].response.kind \in FallbackKinds
        /\ pending[1].response.kind = "fallback_" \o pending[1].reason
        /\ pending[1].response.ai = None
        /\ pending[1].error = ""
        /\ pending[1].sources = <<>>
        /\ pending[1].status = 200
        /\ (pc = "done" => result = pending)

\* a generated response was scored too low and blocked: the user is given
\* the low-confidence fallback although the model's text exists
C11_Witness ==
    /\ pc = "done"
    /\ aiResponse # None
    /\ Len(aiResponse[1].markers) > 0
    /\ result[1].blocked
    /\ result[1].reason = "low_confidence"
    /\ result[1].response = FallbackLowConfidence
    /\ result[1].sources = <<>>

\* the payload of the catch block, whatever the message
IsErrorPayload(p) ==
    /\ p.blocked
    /\ p.reason = "error"
    /\ p.status \notin 200..299
    /\ p.response = ErrorApology

\* C12: a step of the embedding call that does not go on to the search, and
\* a step of the completion call that does not go on to citation
\* verification, ends the query with the error response (blocked, reason
\* 'error', status 500); nothing was retrieved for a failed embedding, and no
\* guardrail outcome, log data or pending payload is produced by the failure.
C12_ServiceFailureFailsClosed ==
    [][((pc = "step2" /\ pc' # "step3") \/ (pc = "step6" /\ pc' # "step7")) =>
          /\ pc' = "done"
          /\ result' # None
          /\ IsErrorPayload(result'[1])
          /\ result'[1].reason \notin GuardrailReasons
          /\ Last(stages') = "error"
          /\ pending' = None
          /\ logData' = None
          /\ (pc = "step2" => relevantChunks' = None /\ completionCalls' = 0)
          /\ ai_guardrails_logs' = ai_guardrails_logs]_vars

\* the completion request failed after a retrieval that found enough sources
C12_Witness ==
    /\ pc = "done"
    /\ relevantChunks # None
    /\ Len(relevantChunks[1]) >= config[1].minSources
    /\ completionCalls = 1
    /\ aiResponse = None
    /\ IsErrorPayload(result[1])
    /\ pending = None

\* C13: the payload returned for a query that failed with a service error is
\* the same whatever the internal error was: the generic apology with reason
\* 'error', and no field carrying the error's message.
C13_ErrorPayloadHidesMessage ==
    (pc = "done" /\ Last(stages) = "error" /\ req[1].query) =>
        result[1] = Payload(500, ErrorApology, TRUE, "error", None, <<>>,
                            FALSE, "", "")

C15_UniqueActiveHash ==
    \A d1, d2 \in DOMAIN documents :
        (/\ documents[d1].is_active
         /\ documents[d2].is_active
         /\ documents[d1].file_hash = documents[d2].file_hash) => d1 = d2

StatusMoves ==
    {<<"pending", "processing">>, <<"processing", "completed">>,
     <<"processing", "failed">>, <<"failed", "pending">>}

\* C16: a document's status changes only along pending -> processing ->
\* completed, processing -> failed and failed -> pending; the blob is fetched
\* only when the status has been moved off pending; a document becomes
\* completed only together with its page count, chunk count and completion
\* time; and no step moves a completed document to another status.
C16_StatusLifecycle ==
    [][/\ \A d \in DOMAIN documents :
             LET before == documents[d].processing_status
                 after == documents'[d].processing_status
             IN  /\ before # after => <<before, after>> \in StatusMoves
                 /\ before = "completed" => after = "completed"
                 /\ (before # "completed" /\ after = "completed") =>
                       /\ documents'[d].processed_at # None
                       /\ documents'[d].total_pages # None
       /\ \A r \in DOMAIN runs :
             runs[r].pc = "download" =>
                 documents[runs[r].documentId].processing_status # "pending"]_vars

\* C17: a step in which an invocation that had set the status to processing
\* ends with an error (download, extraction or embedding) leaves the
\* document with status failed and the error's message in processing_error,
\* and its response has a non-2xx status and carries that message.
C17_FailureMarksFailed ==
    [][\A r \in DOMAIN runs :
          (/\ runs[r].pc \in {"download", "chunk"}
           /\ runs'[r].pc = "done"
           /\ ~runs'[r].response[1].success) =>
              /\ documents'[runs[r].documentId].processing_status = "failed"
              /\ documents'[runs[r].documentId].processing_error
                    = Some(runs'[r].response[1].error)
              /\ runs'[r].response[1].status \notin 200..299]_vars

\* chunk rows written by invocation r
WrittenBy(chunks, r) == {c \in chunks : c.id[1] = r}

\* chunk rows stored for document d
ChunksOf(chunks, d) == {c \in chunks : c.document_id = d}

\* C19: an invocation whose chunk loop has run to its end, with or without
\* failed inserts, ends completed, and the chunk count it records on the
\* document and returns equals the number of chunk rows it stored.
C19_ChunkCountIsStored ==
    [][\A r \in DOMAIN runs :
          (/\ runs[r].pc = "chunk"
           /\ runs[r].chunkIndex = runs[r].chunks
           /\ runs'[r].pc = "done") =>
              /\ documents'[runs[r].documentId].processing_status = "completed"
              /\ runs'[r].response[1].success
              /\ documents'[runs[r].documentId].total_chunks
                    = Cardinality(WrittenBy(document_chunks', r))
              /\ runs'[r].response[1].chunks
                    = Cardinality(WrittenBy(document_chunks', r))]_vars

\* C20: when an invocation made for a document after an earlier one had
\* failed ends, while no other invocation for the document is in progress,
\* the chunk rows stored for the document are exactly those this invocation
\* wrote (none, when it failed before its first insert).
C20_ReprocessReplacesChunks ==
    [][\A r \in DOMAIN runs :
          (/\ runs[r].retry
           /\ runs[r].pc # "done"
           /\ runs'[r].pc = "done"
           /\ \A r2 \in DOMAIN runs' :
                 runs'[r2].documentId = runs[r].documentId => runs'[r2].pc = "done") =>
              ChunksOf(document_chunks', runs[r].documentId)
                  = WrittenBy(document_chunks', r)]_vars

\* C18: a chat query that has not returned yet can always go on without an
\* answer of the embedding or completion service (a timeout of the call
\* being such a step), so a service that never answers cannot keep it from
\* returning.
C18_ReturnsWithoutService ==
    (pc \notin {"idle", "done"}) => ENABLED AwaitsNoService

\* C26: when the search RPC has failed (an error and no rows), the query is
\* not answered with the error response: it is blocked with reason
\* insufficient_sources and status 200, what is logged has sources_found = 0,
\* and no completion request is sent.
C26_SearchFailureBlocks ==
    [][/\ (pc = "step4" /\ relevantChunks = None) =>
             /\ pc' = "log"
             /\ Last(stages') = "blocked"
             /\ result' = None
             /\ pending'[1].blocked
             /\ pending'[1].reason = "insufficient_sources"
             /\ pending'[1].status = 200
             /\ logData'[1].guardrailChecks.sources_found = 0
             /\ completionCalls' = 0
       /\ (relevantChunks = None /\ pc \in {"log", "return"}) =>
             /\ completionCalls' = 0
             /\ pending' = pending
             /\ (pc' = "done" => result' = pending)
             /\ \A i \in 1..Len(ai_guardrails_logs') :
                   ai_guardrails_logs'[i].guardrail_checks.sources_found = 0]_vars

\* the search failed; the query was answered with the fallback and logged
C26_Witness ==
    /\ pc = "done"
    /\ relevantChunks = None
    /\ result[1].reason = "insufficient_sources"
    /\ result[1].status = 200
    /\ completionCalls = 0
    /\ Len(ai_guardrails_logs) = 1
    /\ ai_guardrails_logs[1].guardrail_checks.sources_found = 0

\* every marker matched by the citation pattern names a source number
\* outside 1..n
AllMarkersOutOfRange(r, n) ==
    /\ \E i \in 1..Len(r.markers) : r.markers[i].tag = "Source"
    /\ \A i \in 1..Len(r.markers) :
          r.markers[i].tag = "Source" => r.markers[i].num \notin 1..n

\* C27: a response whose [Source N] markers all name numbers outside
\* 1..(number of retrieved sources) is not blocked as no_citations, also
\* when citations are required: it is scored with citation coverage 0, and
\* in an accepted or warned result every source has cited = false.
C27_OutOfRangeMarkersPass ==
    (citations # None
       /\ AllMarkersOutOfRange(aiResponse[1], Len(relevantChunks[1]))) =>
        LET rows == relevantChunks[1]
            n == Len(rows)
        IN  /\ Len(citations[1]) > 0
            /\ citedSourceIndices[1] = {}
            /\ pc \in {"step8", "step9", "log", "return", "done"}
            /\ pending # None => pending[1].reason # "no_citations"
            /\ Last(stages) \in {"verified", "scored", "blocked", "warned", "accepted"}
            /\ confidenceScore # None =>
                  confidenceScore[1].num * 1000 * n =
                     confidenceScore[1].den
                        * (5 * TotalSimilarity(rows, n) + QualityTerm(aiResponse[1]) * n)
            /\ (pending # None /\ ~pending[1].blocked) =>
                  /\ Len(pending[1].sources) = n
                  /\ \A i \in 1..n : ~pending[1].sources[i].cited

\* two sources retrieved, the response cites only [Source 3], citations
\* are required, and the answer is returned with no source marked cited
C27_Witness ==
    /\ pc = "done"
    /\ aiResponse # None
    /\ config[1].citationRequired
    /\ Len(relevantChunks[1]) = 2
    /\ aiResponse[1].markers = <<[tag |-> "Source", num |-> 3]>>
    /\ ~result[1].blocked
    /\ \A i \in 1..2 : ~result[1].sources[i].cited

\* the field of GuardrailConfig a rule row feeds, and its built-in default
RuleField(cfg, n) ==
    CASE n = "min_confidence" -> cfg.confidenceThreshold
      [] n = "require_sources" -> cfg.minSources
      [] n = "max_response_length" -> cfg.maxTokens
      [] n = "block_unsupported" -> cfg.blockUnsupported
      [] n = "citation_required" -> cfg.citationRequired
BuiltIn(n) ==
    CASE n = "min_confidence" -> DefaultThreshold
      [] n = "require_sources" -> DefaultMinSources
      [] n = "max_response_length" -> DefaultMaxTokens
      [] n = "block_unsupported" -> TRUE
      [] n = "citation_required" -> TRUE
RuleOff(n) == ~ai_guardrails_config[n].is_enabled

\* C28: a rule row with is_enabled = false is ignored: the resolved
\* configuration holds the built-in default (0.7, 1, 1000, true, true) for it
\* whatever the row stores.  So with citation_required switched off in the
\* table a response without a citation is still blocked as no_citations, and
\* with block_unsupported switched off a low score is still blocked.
C28_DisabledRuleUsesDefault ==
    /\ config # None =>
          \A n \in RuleNames : RuleOff(n) => RuleField(config[1], n) = BuiltIn(n)
    /\ (/\ RuleOff("citation_required")
        /\ citations # None
        /\ NoCitationMarker(aiResponse[1])) =>
          /\ Last(stages) = "blocked"
          /\ pending[1].reason = "no_citations"
    /\ (/\ RuleOff("block_unsupported")
        /\ confidenceScore # None
        /\ pc \in {"log", "return", "done"}
        /\ ScoreIsLow) =>
          /\ Last(stages) = "blocked"
          /\ pending[1].reason = "low_confidence"

\* citation_required stores required = false in a disabled row, and a response
\* without a citation has been blocked
C28_Witness ==
    /\ pc = "done"
    /\ RuleOff("citation_required")
    /\ ~ai_guardrails_config["citation_required"].rule_value
    /\ citations # None
    /\ result # None
    /\ result[1].reason = "no_citations"

ZeroCandidates == relevantChunks = None \/ Len(relevantChunks[1]) = 0

\* C29: whatever non-negative min_sources is stored, 0 included, a query
\* whose retrieval gave zero candidates or no result is blocked at guardrail
\* #1 with reason insufficient_sources; no completion request is sent and no
\* confidence score (the division by the number of sources) is computed.
C29_ZeroCandidatesNeverAnswered ==
    [][/\ (pc = "step4" /\ ZeroCandidates) =>
             /\ pc' = "log"
             /\ Last(stages') = "blocked"
             /\ pending'[1].blocked
             /\ pending'[1].reason = "insufficient_sources"
       /\ (completionCalls' > 0 \/ confidenceScore' # None) =>
             /\ relevantChunks' # None
             /\ Len(relevantChunks'[1]) > 0]_vars

\* min_sources = 0 is stored and enabled, the search gave an empty list
C29_Witness ==
    /\ pc = "done"
    /\ ai_guardrails_config["require_sources"] =
          [is_enabled |-> TRUE, rule_value |-> 0]
    /\ config # None
    /\ relevantChunks = Some(<<>>)
    /\ result # None
    /\ result[1].reason = "insufficient_sources"
    /\ completionCalls = 0

\* C25: the configuration is resolved once per query, in STEP 1 before the
\* embedding request, from the rule table as it is at that moment (or the
\* defaults if the select fails); every guardrail decides by that value, and
\* a write of the settings page changes nothing of the query in flight.
C25_ConfigReadOnce ==
    [][/\ config' # config =>
             /\ pc = "step1" /\ pc' = "step2" /\ config = None
             /\ config'[1] \in {ResolveConfig(SelectEnabled(ai_guardrails_config)),
                                ResolveConfig(<<>>)}
       /\ (pc = "step4" /\ pc' # pc) =>
             (pc' = "log" <=> InsufficientSources(relevantChunks, config[1]))
       /\ (pc = "step7" /\ pc' # pc) =>
             (pc' = "log" <=>
                 /\ config[1].citationRequired
                 /\ Len(MatchAll(aiResponse[1].markers)) = 0)
       /\ (pc = "step9" /\ pc' # pc) =>
             (pending'[1].blocked <=> (ScoreIsLow /\ config[1].blockUnsupported))
       /\ ai_guardrails_config' # ai_guardrails_config =>
             UNCHANGED <<pc, req, config, relevantChunks, aiResponse, citations,
                         citedSourceIndices, confidenceScore, logData, pending,
                         result, stages, completionCalls>>]_vars

\* the query read the rules between the first and the second upsert of a
\* save (threshold 0.95, min_sources still 1); the table then got
\* min_sources = 2, and the query with one source was not blocked for it
C25_Witness ==
    /\ pc = "done"
    /\ config # None
    /\ config[1].confidenceThreshold = 95
    /\ config[1].minSources = 1
    /\ ai_guardrails_config["require_sources"].rule_value = 2
    /\ relevantChunks # None
    /\ Len(relevantChunks[1]) = 1
    /\ result # None
    /\ result[1].reason # "insufficient_sources"
    /\ result[1].reason # "error"

\* C21: the chunk_index values stored for a document are pairwise distinct
\* and form the range 0..n-1, n being the number of its chunk rows, in every
\* state: after failed inserts, after a run that failed at an embedding
\* request, after reprocessing and with several invocations for one document.
C21_ChunkIndicesContiguous ==
    \A d \in DOMAIN documents :
        LET rows == ChunksOf(document_chunks, d)
        IN  /\ \A c1, c2 \in rows : c1 # c2 => c1.chunk_index # c2.chunk_index
            /\ {c.chunk_index : c \in rows} = 0..(Cardinality(rows) - 1)

\* C24: an invocation whose text chunkText cuts into zero chunks (an empty or
\* whitespace-only text) ends as an extraction failure: no document is
\* completed with a chunk count of 0, and no success response reports 0 chunks.
C24_ZeroChunksIsFailure ==
    /\ \A d \in DOMAIN documents :
          documents[d].processing_status = "completed" =>
              documents[d].total_chunks > 0
    /\ \A r \in DOMAIN runs :
          (runs[r].pc = "done" /\ runs[r].response[1].success) =>
              runs[r].response[1].chunks > 0

\* the n first characters of s taken away, and the n last characters of s
DropFirst(s, n) == SubSeq(s, Min(n, Len(s)) + 1, Len(s))
LastChars(s, n) == SubSeq(s, Len(s) - Min(n, Len(s)) + 1, Len(s))

\* the chunks' contents in order, each after the first without its overlap
RECURSIVE NonOverlapFrom(_, _, _)
NonOverlapFrom(chunks, k, overlap) ==
    IF k > Len(chunks)
    THEN <<>>
    ELSE (IF k = 1 THEN chunks[k].content ELSE DropFirst(chunks[k].content, overlap))
            \o NonOverlapFrom(chunks, k + 1, overlap)

ChunkTextReturned == chunker # None /\ chunker[1].chunks # None

\* C22: the non-overlap regions of the chunks chunkText returns, put together
\* in order, are the input text exactly.
C22_ChunksReconstructText ==
    ChunkTextReturned =>
        NonOverlapFrom(chunker[1].chunks[1], 1, chunker[1].options.overlap)
            = chunker[1].text

\* C23: each chunk chunkText emitted before the final one is followed by a
\* chunk whose content begins with the last overlap characters of its own
\* content, and has at most maxChars characters.
C23_OverlapSeedsNextChunk ==
    ChunkTextReturned =>
        LET chunks == chunker[1].chunks[1]
            options == chunker[1].options
        IN  \A i \in 1..(Len(chunks) - 1) :
               /\ IsPrefix(LastChars(chunks[i].content, options.overlap),
                           chunks[i + 1].content)
               /\ Len(chunks[i].content) <= options.maxChars

\* C30: with maxChars > 0 and overlap >= 0 every chunk chunkText returns has
\* 0 <= charStart <= charEnd, and charEnd does not decrease along the chunks.
C30_OffsetsOrdered ==
    (/\ ChunkTextReturned
     /\ chunker[1].options.maxChars > 0
     /\ chunker[1].options.overlap >= 0) =>
        LET chunks == chunker[1].chunks[1]
        IN  /\ \A i \in 1..Len(chunks) :
                  /\ 0 <= chunks[i].charStart
                  /\ chunks[i].charStart <= chunks[i].charEnd
            /\ \A i \in 1..(Len(chunks) - 1) :
                  chunks[i].charEnd <= chunks[i + 1].charEnd
====
